---------------------------- MODULE Spec2Model ----------------------------
(***************************************************************************)
(* A model of ztunnel's src/proxy.rs: the identity-scoped certificate      *)
(* fetch, the proxy orchestrator (from_inputs / run), the gateway and      *)
(* waypoint checks, freebind_connect and the TraceParent codec.            *)
(*                                                                         *)
(* The components do not share state.  Each has its own variables, its own *)
(* initial predicate and next-state relation, and its own specification;   *)
(* a specification of one component holds the other components' variables  *)
(* at a fixed idle value.                                                  *)
(***************************************************************************)
EXTENDS Integers, Sequences, FiniteSets, TLC

VARIABLES
    \* ScopedSecretManager
    allowed,            \* Option<Arc<WorkloadInfo>>, set at construction
    debug_assertions,   \* whether the build compiles debug_assert! in
    backend_log,        \* identities handed to SecretManager::fetch_certificate
    ssm_last,           \* the last fetch_certificate call and its outcome
    \* Proxy::from_inputs and Proxy::run
    cfg,                \* pi.cfg: inbound_addr, socks5_addr, fake_self_inbound
    fi_pc,              \* position of from_inputs
    attempted,          \* roles whose constructor has been invoked, in order
    roles,              \* roles constructed so far: role name -> bound address
    fi_result,          \* what from_inputs returned
    run_pc,             \* position of run
    tasks,              \* the Vec<JoinHandle> of run, in spawn order
    task_state,         \* task name -> "running" | "finished" | "panicked"
    run_ret,            \* what run returned
    \* check_gateway_address, check_from_waypoint, check_from_network_gateway
    store,              \* the state store: workloads by uid, destinations
    gw_call,            \* the last check and its result
    \* freebind_connect
    fc_pc,              \* "idle" | "connecting" | "done"
    fc_args,            \* local: Option<IpAddr>, addr: SocketAddr
    fc_syscalls,        \* what was asked of the socket factory and the socket
    fc_elapsed,         \* seconds since timeout() was called
    fc_inner,           \* what the inner connect() returned, if it did
    fc_result,          \* what freebind_connect returned
    \* TraceParent
    tp_value,           \* a TraceParent
    tp_text,            \* a string: its Debug form, or a header that arrived
    tp_parsed,          \* what TraceParent::try_from made of the string
    \* guess_inbound_service
    gis_call,           \* the call of guess_inbound_service made, and its result
    \* write_proxy_protocol
    pp_stream,          \* what has been written to the stream, in order
    pp_calls,           \* the calls of write_proxy_protocol made, with their results
    \* maybe_set_transparent
    require_original_source,    \* pi.cfg.require_original_source
    listeners,          \* of each listener: whether its transparent option is set
    mst_calls           \* the calls of maybe_set_transparent made, with their results

varsSecret == <<allowed, debug_assertions, backend_log, ssm_last>>
varsProxy == <<cfg, fi_pc, attempted, roles, fi_result, run_pc, tasks, task_state, run_ret>>
varsGateway == <<store, gw_call>>
varsConnect == <<fc_pc, fc_args, fc_syscalls, fc_elapsed, fc_inner, fc_result>>
varsTrace == <<tp_value, tp_text, tp_parsed>>
varsGuess == <<gis_call>>
varsPP == <<pp_stream, pp_calls>>
varsTransparent == <<require_original_source, listeners, mst_calls>>
vars == <<varsSecret, varsProxy, varsGateway, varsConnect, varsTrace, varsGuess, varsPP,
          varsTransparent>>

\* What an action of one component leaves alone: the other components.
OnlySecret == UNCHANGED <<varsProxy, varsGateway, varsConnect, varsTrace, varsGuess, varsPP,
    varsTransparent>>
OnlyProxy == UNCHANGED <<varsSecret, varsGateway, varsConnect, varsTrace, varsGuess, varsPP,
    varsTransparent>>
OnlyGateway == UNCHANGED <<varsSecret, varsProxy, varsConnect, varsTrace, varsGuess, varsPP,
    varsTransparent>>
OnlyConnect == UNCHANGED <<varsSecret, varsProxy, varsGateway, varsTrace, varsGuess, varsPP,
    varsTransparent>>
OnlyTrace == UNCHANGED <<varsSecret, varsProxy, varsGateway, varsConnect, varsGuess, varsPP,
    varsTransparent>>
OnlyGuess == UNCHANGED <<varsSecret, varsProxy, varsGateway, varsConnect, varsTrace, varsPP,
    varsTransparent>>
OnlyPP == UNCHANGED <<varsSecret, varsProxy, varsGateway, varsConnect, varsTrace, varsGuess,
    varsTransparent>>
OnlyTransparent == UNCHANGED <<varsSecret, varsProxy, varsGateway, varsConnect, varsTrace, varsGuess, varsPP>>

\* Option<T>
None == [some |-> FALSE]
Some(x) == [some |-> TRUE, val |-> x]

-----------------------------------------------------------------------------
(* Identity and WorkloadInfo *)

TrustDomains == {"cluster.local", "remote.local"}
Namespaces == {"ns1", "ns2"}
ServiceAccounts == {"sa1", "sa2"}

\* Identity::Spiffe { trust_domain, namespace, service_account }
Identity == [trust_domain : TrustDomains, namespace : Namespaces,
             service_account : ServiceAccounts]

\* WorkloadInfo { name, namespace, service_account }
WorkloadInfo == [name : {"wl"}, namespace : Namespaces,
                 service_account : ServiceAccounts]

-----------------------------------------------------------------------------
(* ScopedSecretManager *)

\* The number of fetch_certificate calls the backend log keeps.
MaxFetch == 2

\* identity::Error::BugInvalidIdentityRequest(id.clone(), allowed.clone())
BugInvalidIdentityRequest(id, al) ==
    [tag |-> "Err", kind |-> "BugInvalidIdentityRequest", id |-> id, allowed |-> al]

\* The outcomes of the certificate backend for id: a certificate of id, or
\* one of its own errors.
BackendOutcomes(id) ==
    {[tag |-> "Ok", cert |-> id], [tag |-> "Err", kind |-> "Backend"]}

\* A bug: the service account is not compared.
RequestRejected_NamespaceOnly(al, id) ==
    /\ al.some
    /\ id.namespace # al.val.namespace

\* The scope check of fetch_certificate: `if let Some(allowed) = &self.allowed`
\* and `namespace != &allowed.namespace || service_account != &allowed.service_account`.
\* The trust domain is not compared.
RequestRejected(al, id) ==
    /\ al.some
    /\ \/ id.namespace # al.val.namespace
       \/ id.service_account # al.val.service_account

\* ScopedSecretManager::fetch_certificate(id)
fetch_certificate(id) ==
    /\ Len(backend_log) < MaxFetch
    /\ IF RequestRejected(allowed, id)
       THEN \* debug_assert!(false, "{err}") panics where debug assertions are
            \* compiled in; otherwise `return Err(err)`
            /\ ssm_last' = [tag |-> "call", id |-> id, backend_invoked |-> FALSE,
                            result |-> IF debug_assertions
                                       THEN [tag |-> "Panic", kind |-> "debug_assert"]
                                       ELSE BugInvalidIdentityRequest(id, allowed.val)]
            /\ UNCHANGED backend_log
       ELSE \* self.cert_manager.fetch_certificate(id).await
            \E out \in BackendOutcomes(id) :
                /\ backend_log' = Append(backend_log, id)
                /\ ssm_last' = [tag |-> "call", id |-> id, backend_invoked |-> TRUE,
                                result |-> out]
    /\ UNCHANGED <<allowed, debug_assertions>>
    /\ OnlySecret

InitSecret ==
    /\ allowed \in {None} \cup {Some(w) : w \in WorkloadInfo}
    /\ debug_assertions \in BOOLEAN
    /\ backend_log = <<>>
    /\ ssm_last = [tag |-> "none"]

IdleSecret ==
    /\ allowed = None
    /\ debug_assertions = FALSE
    /\ backend_log = <<>>
    /\ ssm_last = [tag |-> "none"]

NextSecret == \E id \in Identity : fetch_certificate(id)

-----------------------------------------------------------------------------
(* Proxy *)

\* The empty map of roles (and of tasks).
NoRoles == [r \in {} |-> None]

\* The ports the OS hands out for a bind to port 0.
EphemeralPorts == {40000, 40001}

\* The configurations: inbound_addr (port 0: any free port), socks5_addr and,
\* in test builds, fake_self_inbound.
Configs ==
    [inbound_addr : {0, 15008},
     socks5_addr : {None, Some(0), Some(15080)},
     fake_self_inbound : BOOLEAN]

\* The address a role's listener asks for.
RoleAddr(c, role) ==
    CASE role = "inbound" -> c.inbound_addr
      [] role = "inbound_passthrough" -> 15006
      [] role = "outbound" -> 15001
      [] role = "socks5" -> c.socks5_addr.val

\* Addresses bound by the roles constructed so far.
InUse(rs) == {rs[r] : r \in DOMAIN rs}

\* The outcomes of a role's constructor (Inbound::new, InboundPassthrough::new,
\* Outbound::new, Socks5::new): a listener bound to the wanted address, or to a
\* free port when the wanted port is 0, or an error.
RoleNewOutcomes(c, rs, role) ==
    LET want == RoleAddr(c, role)
        free == IF want = 0 THEN EphemeralPorts \ InUse(rs) ELSE {want} \ InUse(rs)
    IN  {[tag |-> "Ok", address |-> a] : a \in free}
        \cup {[tag |-> "Err", kind |-> "Bind", role |-> role, addr |-> want],
              [tag |-> "Err", kind |-> "Io", role |-> role]}

\* `let x = Role::new(pi.clone(), drain.clone()).await?;`: on Ok the role is
\* kept and from_inputs goes on to `next`; on Err from_inputs returns the error.
Construct(role, out, next) ==
    /\ attempted' = Append(attempted, [role |-> role, outcome |-> out])
    /\ IF out.tag = "Ok"
       THEN /\ roles' = (role :> out.address) @@ roles
            /\ fi_pc' = next
            /\ UNCHANGED fi_result
       ELSE /\ fi_result' = out
            /\ fi_pc' = "failed"
            /\ UNCHANGED roles

\* let inbound = Inbound::new(pi.clone(), drain.clone()).await?;
\* and, with fake_self_inbound, pi.cfg.inbound_addr = inbound.address()
NewInbound ==
    /\ fi_pc = "inbound"
    /\ \E out \in RoleNewOutcomes(cfg, roles, "inbound") :
        /\ Construct("inbound", out, "inbound_passthrough")
        /\ cfg' = IF out.tag = "Ok" /\ cfg.fake_self_inbound
                  THEN [cfg EXCEPT !.inbound_addr = out.address]
                  ELSE cfg
    /\ UNCHANGED <<run_pc, tasks, task_state, run_ret>>
    /\ OnlyProxy

\* let inbound_passthrough = InboundPassthrough::new(pi.clone(), drain.clone()).await?;
NewInboundPassthrough ==
    /\ fi_pc = "inbound_passthrough"
    /\ \E out \in RoleNewOutcomes(cfg, roles, "inbound_passthrough") :
        Construct("inbound_passthrough", out, "outbound")
    /\ UNCHANGED <<cfg, run_pc, tasks, task_state, run_ret>>
    /\ OnlyProxy

\* A bug: an error of Outbound::new is dropped and construction goes on.
NewOutbound_ErrorIgnored ==
    /\ fi_pc = "outbound"
    /\ \E out \in RoleNewOutcomes(cfg, roles, "outbound") :
        /\ attempted' = Append(attempted, [role |-> "outbound", outcome |-> out])
        /\ roles' = IF out.tag = "Ok" THEN ("outbound" :> out.address) @@ roles ELSE roles
        /\ fi_pc' = "socks5"
        /\ UNCHANGED fi_result
    /\ UNCHANGED <<cfg, run_pc, tasks, task_state, run_ret>>
    /\ OnlyProxy

\* let outbound = Outbound::new(pi.clone(), drain.clone()).await?;
NewOutbound ==
    /\ fi_pc = "outbound"
    /\ \E out \in RoleNewOutcomes(cfg, roles, "outbound") :
        Construct("outbound", out, "socks5")
    /\ UNCHANGED <<cfg, run_pc, tasks, task_state, run_ret>>
    /\ OnlyProxy

\* let socks5 = if pi.cfg.socks5_addr.is_some() { Some(Socks5::new(..).await?) } else { None };
NewSocks5 ==
    /\ fi_pc = "socks5"
    /\ \/ /\ cfg.socks5_addr.some
          /\ \E out \in RoleNewOutcomes(cfg, roles, "socks5") :
                Construct("socks5", out, "policy_watcher")
       \/ /\ ~cfg.socks5_addr.some
          /\ fi_pc' = "policy_watcher"
          /\ UNCHANGED <<attempted, roles, fi_result>>
    /\ UNCHANGED <<cfg, run_pc, tasks, task_state, run_ret>>
    /\ OnlyProxy

\* Proxy { inbound, inbound_passthrough, outbound, socks5, policy_watcher }
ProxyOf(rs) ==
    [inbound |-> rs["inbound"],
     inbound_passthrough |-> rs["inbound_passthrough"],
     outbound |-> rs["outbound"],
     socks5 |-> IF "socks5" \in DOMAIN rs THEN Some(rs["socks5"]) ELSE None,
     policy_watcher |-> "policy_watcher"]

\* A bug: the outbound address is reported as the socks5 address.
addresses_Socks5FromOutbound(proxy) ==
    [outbound |-> proxy.outbound,
     inbound |-> proxy.inbound,
     socks5 |-> IF proxy.socks5.some THEN Some(proxy.outbound) ELSE None]

\* Proxy::addresses; a role's address() is the address its listener is bound to.
addresses(proxy) ==
    [outbound |-> proxy.outbound,
     inbound |-> proxy.inbound,
     socks5 |-> IF proxy.socks5.some THEN Some(proxy.socks5.val) ELSE None]

\* let policy_watcher = PolicyWatcher::new(..); Ok(Proxy { .. })
\* PolicyWatcher::new cannot fail.
NewPolicyWatcher ==
    /\ fi_pc = "policy_watcher"
    /\ attempted' = Append(attempted, [role |-> "policy_watcher", outcome |-> [tag |-> "Ok"]])
    /\ fi_result' = [tag |-> "Ok", proxy |-> ProxyOf(roles)]
    /\ fi_pc' = "done"
    /\ UNCHANGED <<cfg, roles, run_pc, tasks, task_state, run_ret>>
    /\ OnlyProxy

\* The tasks run spawns, in order: the four of the vec!, then socks5 if Some.
SpawnOrder(proxy) ==
    <<"inbound_passthrough", "policy_watcher", "inbound", "outbound">>
    \o (IF proxy.socks5.some THEN <<"socks5">> ELSE <<>>)

\* run: `let mut tasks = vec![tokio::spawn(..), ..]; if let Some(socks5) ... tasks.push(..)`
RunSpawn ==
    /\ fi_pc = "done"
    /\ run_pc = "idle"
    /\ tasks' = SpawnOrder(fi_result.proxy)
    /\ task_state' = [i \in 1..Len(tasks') |-> "running"]
    /\ run_pc' = "joining"
    /\ UNCHANGED <<cfg, fi_pc, attempted, roles, fi_result, run_ret>>
    /\ OnlyProxy

\* A spawned task ends: its future returns, or it panics.
TaskEnd ==
    /\ run_pc \in {"joining", "returned"}
    /\ \E i \in 1..Len(tasks) :
        /\ task_state[i] = "running"
        /\ \E how \in {"finished", "panicked"} :
            task_state' = [task_state EXCEPT ![i] = how]
    /\ UNCHANGED <<cfg, fi_pc, attempted, roles, fi_result, run_pc, tasks, run_ret>>
    /\ OnlyProxy

\* A bug: the first task to end ends the wait (a select, not a join).
JoinAllReady_Any(ts) == \E i \in 1..Len(ts) : ts[i] # "running"

\* futures::future::join_all(tasks) is ready when every JoinHandle is: the
\* task finished (Ok) or panicked (Err(JoinError)).
JoinAllReady(ts) == \A i \in 1..Len(ts) : ts[i] # "running"

\* `futures::future::join_all(tasks).await;` and run returns (): the Vec of
\* join results is dropped.
RunReturn ==
    /\ run_pc = "joining"
    /\ JoinAllReady(task_state)
    /\ run_pc' = "returned"
    /\ run_ret' = [tag |-> "unit"]
    /\ UNCHANGED <<cfg, fi_pc, attempted, roles, fi_result, tasks, task_state>>
    /\ OnlyProxy

InitProxy ==
    /\ cfg \in Configs
    /\ fi_pc = "inbound"
    /\ attempted = <<>>
    /\ roles = NoRoles
    /\ fi_result = [tag |-> "none"]
    /\ run_pc = "idle"
    /\ tasks = <<>>
    /\ task_state = <<>>
    /\ run_ret = [tag |-> "none"]

IdleProxy ==
    /\ cfg = [inbound_addr |-> 0, socks5_addr |-> None, fake_self_inbound |-> FALSE]
    /\ fi_pc = "idle"
    /\ attempted = <<>>
    /\ roles = NoRoles
    /\ fi_result = [tag |-> "none"]
    /\ run_pc = "idle"
    /\ tasks = <<>>
    /\ task_state = <<>>
    /\ run_ret = [tag |-> "none"]

NextProxy ==
    \/ NewInbound
    \/ NewInboundPassthrough
    \/ NewOutbound
    \/ NewSocks5
    \/ NewPolicyWatcher
    \/ RunSpawn
    \/ TaskEnd
    \/ RunReturn

-----------------------------------------------------------------------------
(* Gateway and waypoint checks *)

\* The most endpoints a Service of the store has.
MaxEndpoints == 2

UIDs == {"uid1", "uid2"}
IPs == {"10.0.0.1", "10.0.0.2"}

\* The identities of the store's workloads and of sources: two that differ in
\* the trust domain alone.
GwIdentities ==
    {[trust_domain |-> td, namespace |-> "ns1", service_account |-> "sa1"] :
        td \in TrustDomains}

\* gatewayaddress::Destination: a literal network address or a namespaced hostname.
Destinations ==
    {[tag |-> "Address", network |-> "", address |-> "10.0.0.100"],
     [tag |-> "Hostname", namespace |-> "gatewayns", hostname |-> "gateway"]}

\* GatewayAddress { destination, hbone_mtls_port }
GatewayAddresses == [destination : Destinations, hbone_mtls_port : {15008}]

\* The fields of Workload the checks read.
Workloads(uid) ==
    [uid : {uid}, trust_domain : TrustDomains, namespace : {"ns1"},
     service_account : {"sa1"}, workload_ips : {{}} \cup {{ip} : ip \in IPs}]

AllWorkloads == UNION {Workloads(u) : u \in UIDs}

\* Upstream workloads: their waypoint and network_gateway.
Upstreams ==
    [waypoint : {None} \cup {Some(g) : g \in GatewayAddresses},
     network_gateway : {None} \cup {Some(g) : g \in GatewayAddresses}]

\* Service.endpoints in the order its iterator yields them; the checks read
\* only Endpoint.workload_uid.
EndpointLists ==
    UNION {[1..n -> [workload_uid : UIDs]] : n \in 0..MaxEndpoints}

\* Workload::identity(): the Spiffe identity of its trust domain, namespace
\* and service account.
identity(wl) ==
    [trust_domain |-> wl.trust_domain, namespace |-> wl.namespace,
     service_account |-> wl.service_account]

\* DemandProxyState::fetch_destination: Some(Address::Workload),
\* Some(Address::Service) or None.
fetch_destination(st, dest) == st.resolved[dest]

\* DemandProxyState::fetch_workload_by_uid
fetch_workload_by_uid(st, uid) == st.workloads[uid]

\* A bug: only the first endpoint is looked at.
AnyEndpointMatches_FirstOnly(hits, i) == i <= Len(hits) /\ hits[i]

\* The loop over svc.endpoints from the i-th on: `return true` at the first
\* endpoint whose workload resolves and satisfies the predicate.
RECURSIVE AnyEndpointMatches(_, _)
AnyEndpointMatches(hits, i) ==
    IF i > Len(hits) THEN FALSE
    ELSE IF hits[i] THEN TRUE
    ELSE AnyEndpointMatches(hits, i + 1)

\* check_gateway_address(state, gateway_address, predicate); the predicate
\* F: Fn(&Workload) -> bool is a function from workloads to BOOLEAN.
check_gateway_address(st, gateway_address, predicate) ==
    IF ~gateway_address.some THEN FALSE
    ELSE LET addr == fetch_destination(st, gateway_address.val.destination)
         IN  IF ~addr.some THEN FALSE
             ELSE IF addr.val.tag = "Workload" THEN predicate[addr.val.wl]
             ELSE LET eps == addr.val.svc.endpoints
                      hits == [i \in 1..Len(eps) |->
                                LET wl == fetch_workload_by_uid(st, eps[i].workload_uid)
                                IN  wl.some /\ predicate[wl.val]]
                  IN  AnyEndpointMatches(hits, 1)

\* A bug: the source address is not checked.
is_waypoint_IdentityOnly(wl, src_identity, src_ip) ==
    Some(identity(wl)) = src_identity

\* |wl| Some(wl.identity()).as_ref() == src_identity && wl.workload_ips.contains(src_ip)
is_waypoint(wl, src_identity, src_ip) ==
    /\ Some(identity(wl)) = src_identity
    /\ src_ip \in wl.workload_ips

\* A bug: the trust domain is not compared.
is_gateway_NoTrustDomain(wl, src_identity) ==
    /\ src_identity.some
    /\ wl.namespace = src_identity.val.namespace
    /\ wl.service_account = src_identity.val.service_account

\* |wl| Some(wl.identity()).as_ref() == src_identity
is_gateway(wl, src_identity) == Some(identity(wl)) = src_identity

\* check_from_waypoint(state, upstream, src_identity, src_ip)
check_from_waypoint(st, upstream, src_identity, src_ip) ==
    LET is_waypoint_closure == [wl \in AllWorkloads |-> is_waypoint(wl, src_identity, src_ip)]
    IN  check_gateway_address(st, upstream.waypoint, is_waypoint_closure)

\* check_from_network_gateway(state, upstream, src_identity)
check_from_network_gateway(st, upstream, src_identity) ==
    LET is_gateway_closure == [wl \in AllWorkloads |-> is_gateway(wl, src_identity)]
    IN  check_gateway_address(st, upstream.network_gateway, is_gateway_closure)

\* A call of check_from_waypoint.  The checks read the store and change
\* nothing: a behaviour makes one call, on any store and any arguments.
CheckFromWaypoint ==
    /\ gw_call.fn = "none"
    /\ \E up \in Upstreams, sid \in {None} \cup {Some(i) : i \in GwIdentities}, ip \in IPs :
        gw_call' = [fn |-> "check_from_waypoint", upstream |-> up,
                    src_identity |-> sid, src_ip |-> ip,
                    result |-> check_from_waypoint(store, up, sid, ip)]
    /\ UNCHANGED store
    /\ OnlyGateway

\* A call of check_from_network_gateway.
CheckFromNetworkGateway ==
    /\ gw_call.fn = "none"
    /\ \E up \in Upstreams, sid \in {None} \cup {Some(i) : i \in GwIdentities} :
        gw_call' = [fn |-> "check_from_network_gateway", upstream |-> up,
                    src_identity |-> sid,
                    result |-> check_from_network_gateway(store, up, sid)]
    /\ UNCHANGED store
    /\ OnlyGateway

\* A call of check_gateway_address with the predicate "the workload's uid is
\* one of `sat`".
CheckGatewayAddress ==
    /\ gw_call.fn = "none"
    /\ \E ga \in {None} \cup {Some(g) : g \in GatewayAddresses}, sat \in SUBSET UIDs :
        LET pred == [wl \in AllWorkloads |-> wl.uid \in sat]
        IN  gw_call' = [fn |-> "check_gateway_address", gateway_address |-> ga,
                        satisfying |-> sat,
                        result |-> check_gateway_address(store, ga, pred)]
    /\ UNCHANGED store
    /\ OnlyGateway

\* The stores: every uid is absent or a workload; one destination resolves,
\* to a workload of the store or to a service, or none does.
Stores ==
    {[workloads |-> ws, resolved |-> [d \in Destinations |-> IF d = k THEN a ELSE None]] :
        ws \in [UIDs -> {None} \cup {Some(w) : w \in AllWorkloads}],
        k \in Destinations,
        a \in {None}
              \cup {Some([tag |-> "Workload", wl |-> w]) : w \in AllWorkloads}
              \cup {Some([tag |-> "Service", svc |-> [endpoints |-> e]]) : e \in EndpointLists}}

\* The stores the state store can hold: a workload is filed under its own uid,
\* and a destination resolves to a workload of the store.
InitGateway ==
    /\ store \in {st \in Stores :
            /\ \A u \in UIDs : st.workloads[u].some => st.workloads[u].val.uid = u
            /\ \A d \in Destinations :
                (st.resolved[d].some /\ st.resolved[d].val.tag = "Workload")
                    => st.workloads[st.resolved[d].val.wl.uid] = Some(st.resolved[d].val.wl)}
    /\ gw_call = [fn |-> "none"]

IdleGateway ==
    /\ store = [workloads |-> [u \in UIDs |-> None], resolved |-> [d \in Destinations |-> None]]
    /\ gw_call = [fn |-> "none"]

NextGateway ==
    \/ CheckFromWaypoint
    \/ CheckFromNetworkGateway
    \/ CheckGatewayAddress

-----------------------------------------------------------------------------
(* freebind_connect *)

\* const CONNECTION_TIMEOUT: Duration = Duration::from_secs(10);
CONNECTION_TIMEOUT == 10

\* IpAddr: V4, or V6; a V6 address may be the IPv4-mapped form of a V4 one.
V4(a) == [v |-> "V4", a |-> a, mapped |-> None]
V6(a) == [v |-> "V6", a |-> a, mapped |-> None]
V6Mapped(a) == [v |-> "V6", a |-> "::ffff:", mapped |-> Some(a)]

IpAddrs ==
    {V4(a) : a \in IPs} \cup {V6Mapped(a) : a \in IPs} \cup {V6("2001:db8::1")}

SocketAddrs == [ip : IpAddrs, port : {8080}]

\* socket::to_canonical: an IPv4-mapped IPv6 address becomes the IPv4 address.
to_canonical(sa) ==
    IF sa.ip.v = "V6" /\ sa.ip.mapped.some
    THEN [sa EXCEPT !.ip = V4(sa.ip.mapped.val)]
    ELSE sa

\* IpAddr::is_ipv4, SocketAddr::is_ipv4
is_ipv4(ip) == ip.v = "V4"

\* create_socket: new_tcp_v4 or new_tcp_v6 of the socket factory
create_socket(v4) == IF v4 THEN "new_tcp_v4" ELSE "new_tcp_v6"

\* A bug: the destination is compared as given, not canonicalized.
SameAsDestination_NotCanonical(src, addr) == src = addr.ip

\* The guard `src == socket::to_canonical(addr).ip()`
SameAsDestination(src, addr) == src = to_canonical(addr).ip

\* The errors of the OS-level connect.
ConnectErrors ==
    {[tag |-> "Err", kind |-> k, source |-> "os"] :
        k \in {"ConnectionRefused", "TimedOut", "NetworkUnreachable"}}

\* A bug: the elapsed timeout is reported as a plain I/O error.
TimeoutError_Other == [tag |-> "Err", kind |-> "Other", source |-> "Elapsed"]

\* .map_err(|e| io::Error::new(io::ErrorKind::TimedOut, e))
TimeoutError == [tag |-> "Err", kind |-> "TimedOut", source |-> "Elapsed"]

\* A bug: a failure of set_freebind_and_transparent or of bind ends connect().
ConnectCalls_SetupFatal(local, addr, create_ok, freebind_ok, bind_ok) ==
    IF ~local.some \/ SameAsDestination(local.val, addr)
    THEN <<[op |-> create_socket(is_ipv4(addr.ip)), ok |-> create_ok]>>
         \o (IF create_ok THEN <<[op |-> "connect", addr |-> addr]>> ELSE <<>>)
    ELSE <<[op |-> create_socket(is_ipv4(local.val)), ok |-> create_ok]>>
         \o (IF create_ok
             THEN <<[op |-> "set_freebind_and_transparent", ok |-> freebind_ok]>>
                  \o (IF freebind_ok
                      THEN <<[op |-> "bind", addr |-> [ip |-> local.val, port |-> 0],
                              ok |-> bind_ok]>>
                           \o (IF bind_ok THEN <<[op |-> "connect", addr |-> addr]>>
                               ELSE <<>>)
                      ELSE <<>>)
             ELSE <<>>)

\* The calls of the inner connect() up to `socket.connect(addr)`, each with
\* its success: the match on `local`.
ConnectCalls(local, addr, create_ok, freebind_ok, bind_ok) ==
    IF ~local.some \/ SameAsDestination(local.val, addr)
    THEN <<[op |-> create_socket(is_ipv4(addr.ip)), ok |-> create_ok]>>
         \o (IF create_ok THEN <<[op |-> "connect", addr |-> addr]>> ELSE <<>>)
    ELSE <<[op |-> create_socket(is_ipv4(local.val)), ok |-> create_ok]>>
         \o (IF create_ok
             THEN <<[op |-> "set_freebind_and_transparent", ok |-> freebind_ok]>>
                  \o (IF freebind_ok
                      THEN <<[op |-> "bind", addr |-> [ip |-> local.val, port |-> 0],
                              ok |-> bind_ok]>>
                      ELSE <<>>)
                  \o <<[op |-> "connect", addr |-> addr]>>
             ELSE <<>>)

\* freebind_connect is called: timeout() is armed and connect() runs to its
\* first await, `socket.connect(addr).await`, or returns the error of
\* create_socket.  The calls before the await take t seconds.
FreebindConnectStart ==
    /\ fc_pc = "idle"
    /\ \E local \in {None} \cup {Some(ip) : ip \in IpAddrs}, addr \in SocketAddrs,
          create_ok \in BOOLEAN, freebind_ok \in BOOLEAN, bind_ok \in BOOLEAN,
          t \in 0..CONNECTION_TIMEOUT :
        /\ fc_args' = [local |-> local, addr |-> addr]
        /\ fc_syscalls' = ConnectCalls(local, addr, create_ok, freebind_ok, bind_ok)
        /\ fc_elapsed' = t
        /\ IF create_ok
           THEN /\ fc_pc' = "connecting"
                /\ UNCHANGED <<fc_inner, fc_result>>
           ELSE /\ fc_pc' = "done"
                /\ fc_inner' = [tag |-> "Err", kind |-> "Other", source |-> "socket"]
                /\ fc_result' = fc_inner'
    /\ OnlyConnect

\* A second passes while the connect is pending.
FreebindTick ==
    /\ fc_pc = "connecting"
    /\ fc_elapsed < CONNECTION_TIMEOUT
    /\ fc_elapsed' = fc_elapsed + 1
    /\ UNCHANGED <<fc_pc, fc_args, fc_syscalls, fc_inner, fc_result>>
    /\ OnlyConnect

\* `Ok(socket.connect(addr).await?)`: the OS-level connect completes and its
\* outcome, a stream or the raw error, is what freebind_connect returns.
FreebindConnectCompletes ==
    /\ fc_pc = "connecting"
    /\ \E out \in {[tag |-> "Ok", stream |-> [peer |-> fc_args.addr]]} \cup ConnectErrors :
        /\ fc_inner' = out
        /\ fc_result' = out
    /\ fc_pc' = "done"
    /\ UNCHANGED <<fc_args, fc_syscalls, fc_elapsed>>
    /\ OnlyConnect

\* timeout(CONNECTION_TIMEOUT, ..) elapses with the connect still pending: the
\* connect is dropped and the error is mapped to the timed-out kind.
FreebindTimeout ==
    /\ fc_pc = "connecting"
    /\ fc_elapsed = CONNECTION_TIMEOUT
    /\ fc_result' = TimeoutError
    /\ fc_pc' = "done"
    /\ UNCHANGED <<fc_args, fc_syscalls, fc_elapsed, fc_inner>>
    /\ OnlyConnect

InitConnect ==
    /\ fc_pc = "idle"
    /\ fc_args = [local |-> None, addr |-> None]
    /\ fc_syscalls = <<>>
    /\ fc_elapsed = 0
    /\ fc_inner = [tag |-> "none"]
    /\ fc_result = [tag |-> "none"]

NextConnect ==
    \/ FreebindConnectStart
    \/ FreebindTick
    \/ FreebindConnectCompletes
    \/ FreebindTimeout

-----------------------------------------------------------------------------
(* TraceParent *)

\* A string is a sequence of characters.  An unsigned integer of a fixed
\* width is the sequence of its hexadecimal digits, most significant first,
\* as many as the type holds: u8 two, u64 sixteen, u128 thirty-two.
U8_HEX_DIGITS == 2
U64_HEX_DIGITS == 16
U128_HEX_DIGITS == 32

\* The minimum widths of "{:02x}-{:032x}-{:016x}-{:02x}"
VERSION_WIDTH == 2
TRACE_ID_WIDTH == 32
PARENT_ID_WIDTH == 16
FLAGS_WIDTH == 2

\* `if value.len() != 55`
TRACEPARENT_LEN == 55

HexChars == <<"0", "1", "2", "3", "4", "5", "6", "7", "8", "9",
              "a", "b", "c", "d", "e", "f">>
UpperHexChars == <<"A", "B", "C", "D", "E", "F">>

Zeros(n) == [i \in 1..n |-> 0]

\* A number's digits without the leading zeros.
RECURSIVE StripZeros(_)
StripZeros(ds) ==
    IF ds # <<>> /\ ds[1] = 0 THEN StripZeros(Tail(ds)) ELSE ds

\* "{:x}": the lower-case hexadecimal digits of a number, at least one.
LowerHex(n) ==
    LET m == StripZeros(n)
    IN  IF m = <<>> THEN <<"0">> ELSE [i \in 1..Len(m) |-> HexChars[m[i] + 1]]

\* A bug: the field is not padded, "{:x}".
FormatHex_NoPad(n, w) == LowerHex(n)

\* "{:0wx}": LowerHex, padded on the left with zeros to at least w characters.
FormatHex(n, w) ==
    LET h == LowerHex(n)
    IN  IF Len(h) >= w THEN h ELSE [i \in 1..(w - Len(h)) |-> "0"] \o h

\* impl fmt::Debug for TraceParent
DebugFmt(tp) ==
    FormatHex(tp.version, VERSION_WIDTH) \o <<"-">>
    \o FormatHex(tp.trace_id, TRACE_ID_WIDTH) \o <<"-">>
    \o FormatHex(tp.parent_id, PARENT_ID_WIDTH) \o <<"-">>
    \o FormatHex(tp.flags, FLAGS_WIDTH)

\* char::to_digit(16): the digit of a character, or -1 for None.
to_digit(c) ==
    IF \E i \in 1..16 : HexChars[i] = c
    THEN (CHOOSE i \in 1..16 : HexChars[i] = c) - 1
    ELSE IF \E i \in 1..6 : UpperHexChars[i] = c
    THEN (CHOOSE i \in 1..6 : UpperHexChars[i] = c) + 9
    ELSE -1

\* The digit loop of from_str_radix from the i-th character on: acc holds the
\* significant digits read so far; a character that is no digit is an error,
\* and so is a digit that the type has no room for.
RECURSIVE ParseDigits(_, _, _, _)
ParseDigits(src, i, acc, cap) ==
    IF i > Len(src) THEN [tag |-> "Ok", val |-> Zeros(cap - Len(acc)) \o acc]
    ELSE LET d == to_digit(src[i])
             acc2 == IF acc = <<>> /\ d = 0 THEN <<>> ELSE Append(acc, d)
         IN  IF d = -1 THEN [tag |-> "Err", kind |-> "InvalidDigit"]
             ELSE IF Len(acc2) > cap THEN [tag |-> "Err", kind |-> "PosOverflow"]
             ELSE ParseDigits(src, i + 1, acc2, cap)

\* u8::from_str_radix(src, 16), u64::.., u128::..: an empty string and a lone
\* sign are errors, a leading "+" is skipped.
from_str_radix(src, cap) ==
    IF src = <<>> THEN [tag |-> "Err", kind |-> "Empty"]
    ELSE IF src \in {<<"+">>, <<"-">>} THEN [tag |-> "Err", kind |-> "InvalidDigit"]
    ELSE ParseDigits(IF src[1] = "+" THEN Tail(src) ELSE src, 1, <<>>, cap)

\* value.split('-').collect(): the pieces between the hyphens, from the i-th
\* character on, cur being the piece in progress.
RECURSIVE Split(_, _, _)
Split(value, i, cur) ==
    IF i > Len(value) THEN <<cur>>
    ELSE IF value[i] = "-" THEN <<cur>> \o Split(value, i + 1, <<>>)
    ELSE Split(value, i + 1, Append(cur, value[i]))

\* segs[k], parsed: indexing past the end of segs panics.
Segment(segs, k, cap) ==
    IF k > Len(segs) THEN [tag |-> "Panic", kind |-> "index out of bounds"]
    ELSE from_str_radix(segs[k], cap)

\* impl TryFrom<&str> for TraceParent: the fields are evaluated in order, and
\* `?` returns the first error.
try_from(value) ==
    IF Len(value) # TRACEPARENT_LEN
    THEN [tag |-> "Err", kind |-> "Length", len |-> Len(value)]
    ELSE LET segs == Split(value, 1, <<>>)
             version == Segment(segs, 1, U8_HEX_DIGITS)
             trace_id == Segment(segs, 2, U128_HEX_DIGITS)
             parent_id == Segment(segs, 3, U64_HEX_DIGITS)
             flags == Segment(segs, 4, U8_HEX_DIGITS)
         IN  IF version.tag # "Ok" THEN version
             ELSE IF trace_id.tag # "Ok" THEN trace_id
             ELSE IF parent_id.tag # "Ok" THEN parent_id
             ELSE IF flags.tag # "Ok" THEN flags
             ELSE [tag |-> "Ok",
                   val |-> [version |-> version.val, trace_id |-> trace_id.val,
                            parent_id |-> parent_id.val, flags |-> flags.val]]

\* A number of w digits: all d, or zeros with d first, or zeros with d last.
Rep(w, d) == [i \in 1..w |-> d]
High(w, d) == [i \in 1..w |-> IF i = 1 THEN d ELSE 0]
Low(w, d) == [i \in 1..w |-> IF i = w THEN d ELSE 0]

\* TraceParent values: those of TraceParent::new() (version 0, flags 0, any
\* ids) and others, as parsing yields them.
TraceParents ==
    [version : {Rep(U8_HEX_DIGITS, 0), Rep(U8_HEX_DIGITS, 15)},
     trace_id : {Rep(U128_HEX_DIGITS, 0), Low(U128_HEX_DIGITS, 1),
                 High(U128_HEX_DIGITS, 10), Rep(U128_HEX_DIGITS, 15)},
     parent_id : {Rep(U64_HEX_DIGITS, 0), Low(U64_HEX_DIGITS, 11),
                  Rep(U64_HEX_DIGITS, 15)},
     flags : {Rep(U8_HEX_DIGITS, 0), Low(U8_HEX_DIGITS, 1)}]

\* The characters a header's text is changed to.
WireChars == {"0", "-", "+", "g", "F"}

\* Strings that arrive as a traceparent header: the text of a TraceParent, or
\* that text with one character changed, or cut short, or extended, or nothing.
WireTexts(tp) ==
    LET base == DebugFmt(tp)
    IN  {base, <<>>, SubSeq(base, 1, Len(base) - 1), base \o <<"0">>}
        \cup {[base EXCEPT ![i] = c] : i \in 1..Len(base), c \in WireChars}

\* format!("{self:?}"), as TraceParent::header does.
TraceParentDebug ==
    /\ tp_text.tag = "none"
    /\ tp_text' = [tag |-> "str", s |-> DebugFmt(tp_value), from |-> "debug"]
    /\ UNCHANGED <<tp_value, tp_parsed>>
    /\ OnlyTrace

\* A string arrives from a peer.
ReceiveHeader ==
    /\ tp_text.tag = "none"
    /\ \E t \in WireTexts(tp_value) :
        tp_text' = [tag |-> "str", s |-> t, from |-> "wire"]
    /\ UNCHANGED <<tp_value, tp_parsed>>
    /\ OnlyTrace

\* TraceParent::try_from(value)
TraceParentTryFrom ==
    /\ tp_text.tag = "str"
    /\ tp_parsed.tag = "none"
    /\ tp_parsed' = try_from(tp_text.s)
    /\ UNCHANGED <<tp_value, tp_text>>
    /\ OnlyTrace

InitTrace ==
    /\ tp_value \in TraceParents
    /\ tp_text = [tag |-> "none"]
    /\ tp_parsed = [tag |-> "none"]

IdleTrace ==
    /\ tp_value = [version |-> Rep(U8_HEX_DIGITS, 0), trace_id |-> Rep(U128_HEX_DIGITS, 0),
                   parent_id |-> Rep(U64_HEX_DIGITS, 0), flags |-> Rep(U8_HEX_DIGITS, 0)]
    /\ tp_text = [tag |-> "none"]
    /\ tp_parsed = [tag |-> "none"]

NextTrace ==
    \/ TraceParentDebug
    \/ ReceiveHeader
    \/ TraceParentTryFrom

-----------------------------------------------------------------------------
(* guess_inbound_service *)

\* The most candidate services of a call.
MaxServices == 2

\* HashMap::get
get(m, k) == IF k \in DOMAIN m THEN Some(m[k]) ELSE None

NoEntries == [k \in {} |-> 0]

\* network_addr(network, ip)
network_addr(network, ip) == [network |-> network, address |-> ip]

\* endpoint_uid(workload_uid, address): the key of Service.endpoints.
endpoint_uid(uid, address) == [uid |-> uid, address |-> address]

\* The destination workload and the connection of the calls: guess_inbound_service
\* reads the workload's uid and network and the connection's dst.
GuessDest == [uid |-> "uid1", network |-> "net1"]
GuessConns == [dst : [ip : {"10.0.0.1"}, port : {8080, 9090}]]

\* The keys of the endpoints of the candidate services: the destination
\* workload at the connection's address and at another one, and another workload.
EndpointKeys ==
    {endpoint_uid("uid1", Some(network_addr("net1", "10.0.0.1"))),
     endpoint_uid("uid1", Some(network_addr("net1", "10.0.0.2"))),
     endpoint_uid("uid2", Some(network_addr("net1", "10.0.0.1")))}

\* Service.ports, service port to target port; 0 is a named target port,
\* which the endpoints resolve.
ServicePorts == {NoEntries, 80 :> 8080, 80 :> 0}

\* Service.endpoints: none, or one Endpoint whose port maps 80 to 8080.
ServiceEndpoints == {NoEntries} \cup {k :> [port |-> 80 :> 8080] : k \in EndpointKeys}

Services ==
    [name : {"A", "B"}, namespace : {"ns1"}, hostname : {"a.svc", "b.svc"},
     ports : ServicePorts, endpoints : ServiceEndpoints]

\* ServiceDescription::from(&Service)
ServiceDescriptionFrom(svc) ==
    [hostname |-> svc.hostname, name |-> svc.name, namespace |-> svc.namespace]

\* |s| for_host_header.as_deref() == Some(s.hostname.as_ref())
HostMatches(svc, for_host_header) == for_host_header = Some(svc.hostname)

\* A bug: the endpoint's ports are not looked at.
PortMatches_TargetPortOnly(svc, dport, euid) ==
    \E sport \in DOMAIN svc.ports : svc.ports[sport] = dport

\* The closure of the second find: some (sport, tport) of s.ports has
\* tport == dport, or the endpoint euid maps sport to dport.
PortMatches(svc, dport, euid) ==
    \E sport \in DOMAIN svc.ports :
        \/ svc.ports[sport] = dport
        \/ LET e == get(svc.endpoints, euid)
           IN  (IF e.some THEN get(e.val.port, sport) ELSE None) = Some(dport)

\* Iterator::find(..).map(ServiceDescription::from), hits[i] being what the
\* closure says of the i-th service.
FindDescription(upstream_service, hits) ==
    IF \E i \in 1..Len(upstream_service) : hits[i]
    THEN LET first == CHOOSE i \in 1..Len(upstream_service) :
                          hits[i] /\ \A j \in 1..(i - 1) : ~hits[j]
         IN  Some(ServiceDescriptionFrom(upstream_service[first]))
    ELSE None

guess_inbound_service(conn, for_host_header, upstream_service, dest) ==
    LET n == Len(upstream_service)
        found == FindDescription(upstream_service,
                    [i \in 1..n |-> HostMatches(upstream_service[i], for_host_header)])
        dport == conn.dst.port
        netaddr == network_addr(dest.network, conn.dst.ip)
        euid == endpoint_uid(dest.uid, Some(netaddr))
    IN  IF found.some THEN found
        ELSE FindDescription(upstream_service,
                [i \in 1..n |-> PortMatches(upstream_service[i], dport, euid)])

\* Host headers: none, a candidate's hostname, or another name.
HostHeaders == {None, Some("a.svc"), Some("b.svc"), Some("bogus.svc")}

\* The candidate lists.
ServiceLists == UNION {[1..n -> Services] : n \in 0..MaxServices}

GuessInboundService ==
    /\ gis_call.fn = "none"
    /\ \E conn \in GuessConns, h \in HostHeaders, ss \in ServiceLists :
        gis_call' = [fn |-> "guess_inbound_service", conn |-> conn,
                     for_host_header |-> h, upstream_service |-> ss,
                     dest |-> GuessDest,
                     ret |-> guess_inbound_service(conn, h, ss, GuessDest)]
    /\ OnlyGuess

InitGuess == gis_call = [fn |-> "none"]

NextGuess == GuessInboundService

-----------------------------------------------------------------------------
(* write_proxy_protocol *)

\* The most calls of write_proxy_protocol on a stream.
MaxWrites == 2

PROXY_PROTOCOL_AUTHORITY_TLV == 208

\* ppp::v2::Addresses: source and destination of the proxied connection.
PPAddresses ==
    {[source |-> "10.0.0.1:1000", destination |-> "10.0.0.2:8080"],
     [source |-> "10.0.0.2:2000", destination |-> "10.0.0.1:8080"]}

\* Source identities.
PPIdentities ==
    {[trust_domain |-> "cluster.local", namespace |-> ns, service_account |-> "sa1"] :
        ns \in Namespaces}

\* Identity::to_string: the SPIFFE form, as the pieces of the string.
IdentityToString(id) ==
    <<"spiffe://", id.trust_domain, "/ns/", id.namespace, "/sa/", id.service_account>>

\* Builder::with_addresses(Version::Two | Command::Proxy, Protocol::Stream, addresses)
with_addresses(version_command, protocol, addrs) ==
    [version_command |-> version_command, protocol |-> protocol,
     addresses |-> addrs, tlvs |-> <<>>]

\* Builder::write_tlv(kind, value), when it succeeds.
write_tlv(builder, kind, value) ==
    [builder EXCEPT !.tlvs = Append(@, [kind |-> kind, value |-> value])]

\* Builder::build(), when it succeeds: the pieces of the header in the order
\* of its bytes: signature, version and command, family and protocol, length,
\* addresses, TLVs.
build(builder) ==
    <<[signature |-> "PROXY v2"],
      [version_command |-> builder.version_command],
      [protocol |-> builder.protocol],
      [length_of |-> <<builder.addresses, builder.tlvs>>],
      [addresses |-> builder.addresses]>>
    \o [i \in 1..Len(builder.tlvs) |-> [tlv |-> builder.tlvs[i]]]

\* A bug: the identity is not added.
Header_NoTlv(addrs, src_id) ==
    build(with_addresses("Two|Proxy", "Stream", addrs))

\* The header write_proxy_protocol builds when nothing fails.
Header(addrs, src_id) ==
    LET b0 == with_addresses("Two|Proxy", "Stream", addrs)
        b1 == IF src_id.some
              THEN write_tlv(b0, PROXY_PROTOCOL_AUTHORITY_TLV, IdentityToString(src_id.val))
              ELSE b0
    IN  build(b1)

\* The outcomes of a call: [ret, written].  write_tlv and build may fail, and
\* `?` returns their error before anything is written; write_all writes the
\* header, or fails after writing less than all of it.
PPOutcomes(addrs, src_id) ==
    LET header == Header(addrs, src_id)
    IN  {[ret |-> [tag |-> "Err", kind |-> "io", at |-> "write_tlv"], written |-> <<>>] :
            x \in IF src_id.some THEN {1} ELSE {}}
        \cup {[ret |-> [tag |-> "Err", kind |-> "io", at |-> "build"], written |-> <<>>]}
        \cup {[ret |-> [tag |-> "Err", kind |-> "io", at |-> "write_all"],
               written |-> SubSeq(header, 1, n)] : n \in 0..(Len(header) - 1)}
        \cup {[ret |-> [tag |-> "Ok"], written |-> header]}

write_proxy_protocol ==
    /\ Len(pp_calls) < MaxWrites
    /\ \E addrs \in PPAddresses, src_id \in {None} \cup {Some(id) : id \in PPIdentities} :
        \E out \in PPOutcomes(addrs, src_id) :
            /\ pp_stream' = pp_stream \o out.written
            /\ pp_calls' = Append(pp_calls,
                    [addresses |-> addrs, src_id |-> src_id, ret |-> out.ret,
                     before |-> pp_stream, after |-> pp_stream'])
    /\ OnlyPP

InitPP ==
    /\ pp_stream = <<>>
    /\ pp_calls = <<>>

NextPP == write_proxy_protocol

-----------------------------------------------------------------------------
(* maybe_set_transparent *)

\* The most calls of maybe_set_transparent.
MaxTransparentCalls == 3

\* The listeners of the roles that ask for the transparent option.
Listeners == {"inbound", "inbound_passthrough"}

\* A bug: a failure to set the option is never an error.
maybe_set_transparent_AlwaysBestEffort(ros, set_ok) ==
    CASE ros = Some(TRUE) ->
            [ret |-> [tag |-> "Ok", val |-> set_ok], attempts |-> <<set_ok>>]
      [] ros = Some(FALSE) ->
            [ret |-> [tag |-> "Ok", val |-> FALSE], attempts |-> <<>>]
      [] ros = None ->
            [ret |-> [tag |-> "Ok", val |-> set_ok], attempts |-> <<set_ok>>]

\* maybe_set_transparent(pi, listener), ros being pi.cfg.require_original_source
\* and set_ok whether listener.set_transparent() succeeds when it is called:
\* what is returned, and the calls of set_transparent made with their success.
maybe_set_transparent(ros, set_ok) ==
    CASE ros = Some(TRUE) ->
            IF set_ok
            THEN [ret |-> [tag |-> "Ok", val |-> TRUE], attempts |-> <<TRUE>>]
            ELSE [ret |-> [tag |-> "Err", kind |-> "Io", source |-> "set_transparent"],
                  attempts |-> <<FALSE>>]
      [] ros = Some(FALSE) ->
            [ret |-> [tag |-> "Ok", val |-> FALSE], attempts |-> <<>>]
      [] ros = None ->
            [ret |-> [tag |-> "Ok", val |-> set_ok], attempts |-> <<set_ok>>]

MaybeSetTransparent ==
    /\ Len(mst_calls) < MaxTransparentCalls
    /\ \E l \in Listeners, set_ok \in BOOLEAN :
        LET out == maybe_set_transparent(require_original_source, set_ok)
        IN  /\ mst_calls' = Append(mst_calls,
                    [listener |-> l, ret |-> out.ret, attempts |-> out.attempts,
                     was |-> listeners[l]])
            /\ listeners' = [listeners EXCEPT
                    ![l] = @ \/ \E i \in 1..Len(out.attempts) : out.attempts[i]]
    /\ UNCHANGED require_original_source
    /\ OnlyTransparent

InitTransparent ==
    /\ require_original_source \in {None, Some(TRUE), Some(FALSE)}
    /\ listeners = [l \in Listeners |-> FALSE]
    /\ mst_calls = <<>>

IdleTransparent ==
    /\ require_original_source = None
    /\ listeners = [l \in Listeners |-> FALSE]
    /\ mst_calls = <<>>

NextTransparent == MaybeSetTransparent

-----------------------------------------------------------------------------
(* Specifications *)

InitSecretSpec == InitSecret /\ IdleProxy /\ IdleGateway /\ InitConnect /\ IdleTrace /\ InitGuess /\ InitPP
    /\ IdleTransparent
SpecSecret == InitSecretSpec /\ [][NextSecret]_vars

InitProxySpec == InitProxy /\ IdleSecret /\ IdleGateway /\ InitConnect /\ IdleTrace /\ InitGuess /\ InitPP
    /\ IdleTransparent
SpecProxy == InitProxySpec /\ [][NextProxy]_vars

\* The runtime polls run again once the JoinHandles it waits on are ready.
FairSpecProxy == SpecProxy /\ WF_vars(RunReturn)

InitGatewaySpec == InitGateway /\ IdleSecret /\ IdleProxy /\ InitConnect /\ IdleTrace /\ InitGuess /\ InitPP
    /\ IdleTransparent
SpecGateway == InitGatewaySpec /\ [][NextGateway]_vars

InitConnectSpec == InitConnect /\ IdleSecret /\ IdleProxy /\ IdleGateway /\ IdleTrace /\ InitGuess /\ InitPP
    /\ IdleTransparent
SpecConnect == InitConnectSpec /\ [][NextConnect]_vars

InitTraceSpec == InitTrace /\ IdleSecret /\ IdleProxy /\ IdleGateway /\ InitConnect /\ InitGuess /\ InitPP
    /\ IdleTransparent
SpecTrace == InitTraceSpec /\ [][NextTrace]_vars

InitGuessSpec == InitGuess /\ IdleSecret /\ IdleProxy /\ IdleGateway /\ InitConnect /\ IdleTrace /\ InitPP
    /\ IdleTransparent
SpecGuess == InitGuessSpec /\ [][NextGuess]_vars

InitPPSpec == InitPP /\ IdleSecret /\ IdleProxy /\ IdleGateway /\ InitConnect /\ IdleTrace /\ InitGuess
    /\ IdleTransparent
SpecPP == InitPPSpec /\ [][NextPP]_vars

InitTransparentSpec == InitTransparent /\ IdleSecret /\ IdleProxy /\ IdleGateway /\ InitConnect /\ IdleTrace /\ InitGuess /\ InitPP
SpecTransparent == InitTransparentSpec /\ [][NextTransparent]_vars

-----------------------------------------------------------------------------
(* Claims *)

\* The last request named a namespace or service account other than the
\* restriction's.
C1_OutOfScope ==
    /\ ssm_last.tag = "call"
    /\ allowed.some
    /\ \/ ssm_last.id.namespace # allowed.val.namespace
       \/ ssm_last.id.service_account # allowed.val.service_account

\* C1 as stated: a restricted manager answers a request for another namespace
\* or service account with the invalid-identity-request error, carrying the
\* requested identity and the allowed workload info, and without invoking the
\* backend.
C1_ReturnsErrorAlways ==
    C1_OutOfScope =>
        /\ ssm_last.result = [tag |-> "Err", kind |-> "BugInvalidIdentityRequest",
                              id |-> ssm_last.id, allowed |-> allowed.val]
        /\ ~ssm_last.backend_invoked

\* C1, amended: a restricted manager never invokes the backend for a request
\* that names another namespace or service account (no such identity is ever
\* handed to the backend); the request ends with the invalid-identity-request
\* error, carrying the requested identity and the allowed workload info, in a
\* build without debug assertions, and with the debug assertion's panic in a
\* build with them.
C1_RejectsWithoutBackend ==
    /\ allowed.some =>
        \A i \in 1..Len(backend_log) :
            /\ backend_log[i].namespace = allowed.val.namespace
            /\ backend_log[i].service_account = allowed.val.service_account
    /\ C1_OutOfScope =>
        /\ ~ssm_last.backend_invoked
        /\ ssm_last.result =
            IF debug_assertions
            THEN [tag |-> "Panic", kind |-> "debug_assert"]
            ELSE [tag |-> "Err", kind |-> "BugInvalidIdentityRequest",
                  id |-> ssm_last.id, allowed |-> allowed.val]

\* A restricted manager, built without debug assertions, has just rejected a
\* request whose service account alone differs, after serving one in scope.
C1_Witness ==
    /\ C1_OutOfScope
    /\ ~debug_assertions
    /\ ssm_last.id.namespace = allowed.val.namespace
    /\ ssm_last.result.tag = "Err"
    /\ Len(backend_log) = 1

\* The order from_inputs constructs the roles in.
C2_Order ==
    <<"inbound", "inbound_passthrough", "outbound">>
    \o (IF cfg.socks5_addr.some THEN <<"socks5">> ELSE <<>>)
    \o <<"policy_watcher">>

\* C2: from_inputs invokes the constructors in the order inbound,
\* inbound-passthrough, outbound, SOCKS5 (if configured), policy watcher;
\* once a constructor fails nothing later is constructed, from_inputs returns
\* that constructor's error and no Proxy (so nothing is run); a Proxy is
\* returned only after every constructor succeeded.
C2_ConstructionOrder ==
    /\ Len(attempted) <= Len(C2_Order)
    /\ \A i \in 1..Len(attempted) :
        /\ attempted[i].role = C2_Order[i]
        /\ i < Len(attempted) => attempted[i].outcome.tag = "Ok"
    /\ DOMAIN roles =
        {attempted[i].role : i \in {j \in 1..Len(attempted) : attempted[j].outcome.tag = "Ok"}}
            \ {"policy_watcher"}
    /\ (Len(attempted) > 0 /\ attempted[Len(attempted)].outcome.tag = "Err") =>
        /\ fi_pc = "failed"
        /\ fi_result = attempted[Len(attempted)].outcome
        /\ fi_result.role = attempted[Len(attempted)].role
        /\ run_pc = "idle"
    /\ fi_result.tag = "Ok" =>
        /\ Len(attempted) = Len(C2_Order)
        /\ \A i \in 1..Len(attempted) : attempted[i].outcome.tag = "Ok"
    /\ fi_pc = "failed" <=> fi_result.tag = "Err"

\* Inbound construction has failed: from_inputs is over and no other role
\* was created.
C2_Witness ==
    /\ fi_pc = "failed"
    /\ Len(attempted) = 1
    /\ attempted[1].role = "inbound"
    /\ fi_result.kind = "Bind"
    /\ DOMAIN roles = {}

\* C3: run has not returned while a task it spawned (inbound-passthrough,
\* policy watcher, inbound, outbound, and SOCKS5 when present) is running,
\* whatever the others did; once every task has ended, finished or panicked,
\* run returns; what it returns is the unit value, whatever the tasks' ends.
C3_RunJoinsAll ==
    /\ [](run_pc # "idle" =>
            /\ Len(task_state) = Len(tasks)
            /\ {tasks[i] : i \in 1..Len(tasks)} =
                {"inbound_passthrough", "policy_watcher", "inbound", "outbound"}
                \cup (IF fi_result.proxy.socks5.some THEN {"socks5"} ELSE {}))
    /\ [](run_pc = "returned" =>
            /\ \A i \in 1..Len(tasks) : task_state[i] \in {"finished", "panicked"}
            /\ run_ret = [tag |-> "unit"])
    /\ [](run_pc # "returned" => run_ret = [tag |-> "none"])
    /\ ((run_pc = "joining" /\ \A i \in 1..Len(tasks) : task_state[i] # "running")
            ~> run_pc = "returned")

\* run has returned after five tasks of which one panicked and one finished.
C3_Witness ==
    /\ run_pc = "returned"
    /\ Len(tasks) = 5
    /\ \E i, j \in 1..Len(tasks) : task_state[i] = "panicked" /\ task_state[j] = "finished"

\* The workloads behind a gateway address: the workload its destination
\* resolves to, or the workloads the uids of the service's endpoints resolve to.
C4_Behind(ga) ==
    IF ~ga.some \/ ~store.resolved[ga.val.destination].some THEN {}
    ELSE LET a == store.resolved[ga.val.destination].val
         IN  IF a.tag = "Workload" THEN {a.wl}
             ELSE {store.workloads[a.svc.endpoints[i].workload_uid].val :
                     i \in {j \in 1..Len(a.svc.endpoints) :
                              store.workloads[a.svc.endpoints[j].workload_uid].some}}

\* C4: check_gateway_address is true iff the gateway address is present and
\* its destination resolves to a workload that satisfies the predicate or to
\* a service one of whose endpoints' workload uid resolves to a workload that
\* does; it is false, and never an error, otherwise.
C4_GatewayAddressIff ==
    gw_call.fn = "check_gateway_address" =>
        /\ gw_call.result \in BOOLEAN
        /\ gw_call.result <=>
            \E w \in C4_Behind(gw_call.gateway_address) : w.uid \in gw_call.satisfying

\* check_gateway_address returned true for a service whose first endpoint does
\* not resolve and whose second does.
C4_Witness ==
    /\ gw_call.fn = "check_gateway_address"
    /\ gw_call.result
    /\ LET a == store.resolved[gw_call.gateway_address.val.destination].val
       IN  /\ a.tag = "Service"
           /\ Len(a.svc.endpoints) = 2
           /\ ~store.workloads[a.svc.endpoints[1].workload_uid].some

\* C5: check_from_waypoint is true only if one workload behind the upstream's
\* waypoint address has both the source identity and the source address.
C5_WaypointNeedsBoth ==
    (gw_call.fn = "check_from_waypoint" /\ gw_call.result) =>
        /\ gw_call.src_identity.some
        /\ \E w \in C4_Behind(gw_call.upstream.waypoint) :
            /\ w.trust_domain = gw_call.src_identity.val.trust_domain
            /\ w.namespace = gw_call.src_identity.val.namespace
            /\ w.service_account = gw_call.src_identity.val.service_account
            /\ gw_call.src_ip \in w.workload_ips

\* check_from_waypoint returned false although, behind the waypoint, one
\* workload has the source identity (and not the address) and another the
\* source address (and not the identity).
C5_Witness ==
    /\ gw_call.fn = "check_from_waypoint"
    /\ ~gw_call.result
    /\ gw_call.src_identity.some
    /\ \E w1, w2 \in C4_Behind(gw_call.upstream.waypoint) :
        /\ identity(w1) = gw_call.src_identity.val
        /\ gw_call.src_ip \notin w1.workload_ips
        /\ identity(w2) # gw_call.src_identity.val
        /\ gw_call.src_ip \in w2.workload_ips

\* C6: check_from_network_gateway is true iff a workload behind the upstream's
\* network-gateway address has the source identity, whatever its addresses,
\* for a destination that is a literal address and for one that is a hostname.
C6_GatewayIdentityOnly ==
    gw_call.fn = "check_from_network_gateway" =>
        (gw_call.result <=>
            /\ gw_call.src_identity.some
            /\ \E w \in C4_Behind(gw_call.upstream.network_gateway) :
                /\ w.trust_domain = gw_call.src_identity.val.trust_domain
                /\ w.namespace = gw_call.src_identity.val.namespace
                /\ w.service_account = gw_call.src_identity.val.service_account)

\* check_from_network_gateway returned true for a hostname destination that
\* resolves to a service, on a workload without any address.
C6_Witness ==
    /\ gw_call.fn = "check_from_network_gateway"
    /\ gw_call.result
    /\ gw_call.upstream.network_gateway.val.destination.tag = "Hostname"
    /\ store.resolved[gw_call.upstream.network_gateway.val.destination].val.tag = "Service"
    /\ \A w \in C4_Behind(gw_call.upstream.network_gateway) : w.workload_ips = {}

\* C7: with local = Some(src) and src the canonicalized address of the
\* destination, freebind_connect creates a socket of the destination's
\* address family and connects it: no freebind or transparent option is set
\* and nothing is bound, just as with local = None.
C7_SameAddressConnectsDirectly ==
    (/\ fc_pc # "idle"
     /\ fc_args.local.some
     /\ fc_args.local.val =
            (IF fc_args.addr.ip.v = "V6" /\ fc_args.addr.ip.mapped.some
             THEN [v |-> "V4", a |-> fc_args.addr.ip.mapped.val, mapped |-> None]
             ELSE fc_args.addr.ip)) =>
        /\ \A i \in 1..Len(fc_syscalls) :
            fc_syscalls[i].op \notin {"set_freebind_and_transparent", "bind"}
        /\ fc_syscalls[1].op =
            (IF fc_args.addr.ip.v = "V4" THEN "new_tcp_v4" ELSE "new_tcp_v6")
        /\ fc_syscalls[1].ok =>
            fc_syscalls = <<fc_syscalls[1], [op |-> "connect", addr |-> fc_args.addr]>>
        /\ ~fc_syscalls[1].ok => Len(fc_syscalls) = 1

\* freebind_connect has connected to an IPv4-mapped IPv6 destination from the
\* IPv4 address it maps.
C7_Witness ==
    /\ fc_pc = "done"
    /\ fc_args.local.some
    /\ fc_args.local.val.v = "V4"
    /\ fc_args.addr.ip.v = "V6"
    /\ fc_args.addr.ip.mapped = Some(fc_args.local.val.a)
    /\ fc_result.tag = "Ok"

\* C8: when the timeout expires before socket setup and the connect have
\* completed, freebind_connect returns the timed-out error, which is none of
\* the errors of a refused or failed connect; when they complete first, it
\* returns their outcome, stream or error, unchanged.
C8_TimeoutIsDistinct ==
    fc_pc = "done" =>
        IF fc_inner.tag = "none"
        THEN /\ fc_elapsed = CONNECTION_TIMEOUT
             /\ fc_result.tag = "Err"
             /\ fc_result.kind = "TimedOut"
             /\ fc_result \notin ConnectErrors
        ELSE fc_result = fc_inner

\* The timeout has expired on a pending connect.
C8_Witness ==
    /\ fc_pc = "done"
    /\ fc_inner.tag = "none"
    /\ fc_syscalls[Len(fc_syscalls)].op = "connect"
    /\ fc_result.kind = "TimedOut"

\* C9: the Debug form of every TraceParent is a string of 55 characters, and
\* parsing it succeeds and gives back the same version, trace id, parent id
\* and flags.
C9_DebugRoundTrip ==
    (tp_text.tag = "str" /\ tp_text.from = "debug") =>
        /\ Len(tp_text.s) = 55
        /\ tp_parsed.tag # "none" =>
            /\ tp_parsed.tag = "Ok"
            /\ tp_parsed.val.version = tp_value.version
            /\ tp_parsed.val.trace_id = tp_value.trace_id
            /\ tp_parsed.val.parent_id = tp_value.parent_id
            /\ tp_parsed.val.flags = tp_value.flags

\* The Debug form of a TraceParent with a trace id of 1 has been parsed back.
C9_Witness ==
    /\ tp_text.tag = "str"
    /\ tp_text.from = "debug"
    /\ tp_parsed.tag = "Ok"
    /\ tp_value.trace_id[32] = 1
    /\ tp_value.version[1] = 15

\* A string of 55 characters: hexadecimal fields of 2, 32, 16 and 2 digits
\* with a hyphen between them.
C10_WellFormed(str) ==
    /\ Len(str) = 55
    /\ \A i \in 1..55 :
        IF i \in {3, 36, 53}
        THEN str[i] = "-"
        ELSE str[i] \in {"0", "1", "2", "3", "4", "5", "6", "7", "8", "9",
                         "a", "b", "c", "d", "e", "f", "A", "B", "C", "D", "E", "F"}

\* C10: parsing succeeds only on 55 characters that are four hyphen-separated
\* hexadecimal fields of 2, 32, 16 and 2 digits; on every other input it
\* returns a parse error, and it never aborts.
C10_RejectsMalformed ==
    tp_parsed.tag # "none" =>
        /\ tp_parsed.tag \in {"Ok", "Err"}
        /\ tp_parsed.tag = "Ok" => C10_WellFormed(tp_text.s)

\* The i-th candidate of the call made is the first whose hostname is the
\* host header.
C11_FirstByHost(i) ==
    /\ gis_call.for_host_header.some
    /\ gis_call.upstream_service[i].hostname = gis_call.for_host_header.val
    /\ \A j \in 1..(i - 1) :
        gis_call.upstream_service[j].hostname # gis_call.for_host_header.val

\* The k-th candidate of the call made has a port whose target port is the
\* connection's destination port, or which its endpoint for the destination
\* workload at the connection's address maps to that port.
C11_ByPort(k) ==
    LET svc == gis_call.upstream_service[k]
        key == [uid |-> gis_call.dest.uid,
                address |-> Some([network |-> gis_call.dest.network,
                                  address |-> gis_call.conn.dst.ip])]
    IN  \E sport \in DOMAIN svc.ports :
            \/ svc.ports[sport] = gis_call.conn.dst.port
            \/ /\ key \in DOMAIN svc.endpoints
               /\ sport \in DOMAIN svc.endpoints[key].port
               /\ svc.endpoints[key].port[sport] = gis_call.conn.dst.port

\* C11: guess_inbound_service returns the first candidate whose hostname is
\* the host header, whatever the ports; failing that the first candidate with
\* a port that leads to the destination port, by its target port or by its
\* endpoint for the destination workload; failing that, none.
C11_GuessPriority ==
    gis_call.fn = "guess_inbound_service" =>
        LET ss == gis_call.upstream_service
            desc(i) == [hostname |-> ss[i].hostname, name |-> ss[i].name,
                        namespace |-> ss[i].namespace]
            anyHost == \E i \in 1..Len(ss) : C11_FirstByHost(i)
        IN  /\ \A i \in 1..Len(ss) :
                C11_FirstByHost(i) => gis_call.ret = Some(desc(i))
            /\ ~anyHost =>
                \A i \in 1..Len(ss) :
                    (C11_ByPort(i) /\ \A j \in 1..(i - 1) : ~C11_ByPort(j))
                        => gis_call.ret = Some(desc(i))
            /\ (~anyHost /\ \A i \in 1..Len(ss) : ~C11_ByPort(i))
                => gis_call.ret = None
            /\ gis_call.ret.some => \E i \in 1..Len(ss) : gis_call.ret.val = desc(i)

\* The host header names the second candidate while the first one alone leads
\* to the destination port, through its endpoint; the second is returned.
C11_Witness ==
    /\ gis_call.fn = "guess_inbound_service"
    /\ Len(gis_call.upstream_service) = 2
    /\ C11_FirstByHost(2)
    /\ C11_ByPort(1)
    /\ gis_call.upstream_service[1].ports = (80 :> 0)
    /\ ~C11_ByPort(2)
    /\ gis_call.ret.some
    /\ gis_call.ret.val.name = gis_call.upstream_service[2].name
    /\ gis_call.upstream_service[1].name # gis_call.upstream_service[2].name

C13_ExpectedHeader(c) ==
    LET tlvs == IF c.src_id.some
                THEN <<[kind |-> 208,
                        value |-> <<"spiffe://", c.src_id.val.trust_domain,
                                    "/ns/", c.src_id.val.namespace,
                                    "/sa/", c.src_id.val.service_account>>]>>
                ELSE <<>>
    IN  <<[signature |-> "PROXY v2"],
          [version_command |-> "Two|Proxy"],
          [protocol |-> "Stream"],
          [length_of |-> <<c.addresses, tlvs>>],
          [addresses |-> c.addresses]>>
        \o [i \in 1..Len(tlvs) |-> [tlv |-> tlvs[i]]]

\* What call c added to the stream.
C13_Written(c) == SubSeq(c.after, Len(c.before) + 1, Len(c.after))

\* C13 as stated: every call of write_proxy_protocol adds exactly one header
\* to the stream, with the identity TLV iff an identity is supplied, unless
\* adding the TLV or building the header fails, and then it returns an I/O
\* error and adds nothing.
C13_AlwaysOneHeader ==
    \A k \in 1..Len(pp_calls) :
        LET c == pp_calls[k]
        IN  \/ C13_Written(c) = C13_ExpectedHeader(c)
            \/ /\ c.ret.tag = "Err"
               /\ c.ret.kind = "io"
               /\ c.ret.at \in {"write_tlv", "build"}
               /\ c.after = c.before

\* C13, amended: a call that returns Ok has added exactly one header, with the
\* identity TLV iff an identity is supplied; a call in which adding the TLV or
\* building the header fails returns an I/O error and adds nothing; a call in
\* which the write fails returns an I/O error and has added the beginning of
\* the header, less than all of it.
C13_OneHeaderOrError ==
    \A k \in 1..Len(pp_calls) :
        LET c == pp_calls[k]
            w == C13_Written(c)
            h == C13_ExpectedHeader(c)
        IN  /\ SubSeq(c.after, 1, Len(c.before)) = c.before
            /\ c.ret.tag = "Ok" => w = h
            /\ c.ret.tag = "Err" =>
                /\ c.ret.kind = "io"
                /\ c.ret.at \in {"write_tlv", "build"} => w = <<>>
                /\ c.ret.at = "write_all" =>
                    Len(w) < Len(h) /\ w = SubSeq(h, 1, Len(w))

\* A write failed after two pieces of a header, and the next call wrote a
\* whole header with its identity after them.
C13_Witness ==
    /\ Len(pp_calls) = 2
    /\ pp_calls[1].ret = [tag |-> "Err", kind |-> "io", at |-> "write_all"]
    /\ Len(pp_calls[1].after) = 2
    /\ pp_calls[2].ret.tag = "Ok"
    /\ pp_calls[2].src_id.some
    /\ Len(pp_stream) = 8
    /\ pp_stream[8].tlv.kind = PROXY_PROTOCOL_AUTHORITY_TLV

\* A call of the calls made on the socket has failed: setting the freebind and
\* transparent options, or binding the local address.
C14_SetupFailed ==
    \E i \in 1..Len(fc_syscalls) :
        /\ fc_syscalls[i].op \in {"set_freebind_and_transparent", "bind"}
        /\ ~fc_syscalls[i].ok

\* C14: with a local address that is not the canonicalized destination, when
\* setting the options or binding fails on the socket created, the connect to
\* the destination is the next and last call on that socket, no bind having
\* succeeded, and freebind_connect returns what that connect comes to: its
\* stream or its error, or the timed-out error when it does not complete in time.
C14_SetupIsBestEffort ==
    (/\ fc_pc # "idle"
     /\ fc_args.local.some
     /\ fc_args.local.val #
            (IF fc_args.addr.ip.v = "V6" /\ fc_args.addr.ip.mapped.some
             THEN [v |-> "V4", a |-> fc_args.addr.ip.mapped.val, mapped |-> None]
             ELSE fc_args.addr.ip)
     /\ C14_SetupFailed) =>
        LET n == Len(fc_syscalls)
        IN  /\ fc_syscalls[1].op \in {"new_tcp_v4", "new_tcp_v6"}
            /\ fc_syscalls[1].ok
            /\ \A i \in 2..n : fc_syscalls[i].op \notin {"new_tcp_v4", "new_tcp_v6"}
            /\ ~fc_syscalls[n - 1].ok
            /\ fc_syscalls[n] = [op |-> "connect", addr |-> fc_args.addr]
            /\ \A i \in 1..n : fc_syscalls[i].op = "bind" => ~fc_syscalls[i].ok
            /\ fc_pc = "done" =>
                IF fc_inner.tag = "none"
                THEN fc_result = [tag |-> "Err", kind |-> "TimedOut", source |-> "Elapsed"]
                ELSE /\ fc_result = fc_inner
                     /\ \/ fc_result = [tag |-> "Ok", stream |-> [peer |-> fc_args.addr]]
                        \/ fc_result.tag = "Err" /\ fc_result.source = "os"

\* The bind of the local address failed and freebind_connect returned the
\* stream of the connect.
C14_Witness ==
    /\ fc_pc = "done"
    /\ fc_args.local.some
    /\ Len(fc_syscalls) = 4
    /\ fc_syscalls[2] = [op |-> "set_freebind_and_transparent", ok |-> TRUE]
    /\ fc_syscalls[3].op = "bind"
    /\ ~fc_syscalls[3].ok
    /\ fc_result = [tag |-> "Ok", stream |-> [peer |-> fc_args.addr]]

\* C15: maybe_set_transparent, when require_original_source is Some(true),
\* tries once to set the transparent option and returns true if that worked
\* and an error if not; when it is Some(false), does not try and returns
\* false; when it is None, tries once and returns whether that worked, never
\* an error.
C15_ThreeWayPolicy ==
    \A k \in 1..Len(mst_calls) :
        LET c == mst_calls[k]
        IN  /\ require_original_source = [some |-> TRUE, val |-> TRUE] =>
                /\ Len(c.attempts) = 1
                /\ c.attempts[1] => c.ret = [tag |-> "Ok", val |-> TRUE]
                /\ ~c.attempts[1] => c.ret.tag = "Err"
            /\ require_original_source = [some |-> TRUE, val |-> FALSE] =>
                /\ c.attempts = <<>>
                /\ c.ret = [tag |-> "Ok", val |-> FALSE]
                /\ ~listeners[c.listener]
            /\ require_original_source = [some |-> FALSE] =>
                /\ Len(c.attempts) = 1
                /\ c.ret = [tag |-> "Ok", val |-> c.attempts[1]]

\* With the transparent option required, it was set on one listener and
\* could not be set on the other, for which an error was returned.
C15_Witness ==
    /\ require_original_source = Some(TRUE)
    /\ Len(mst_calls) = 2
    /\ mst_calls[1].ret = [tag |-> "Ok", val |-> TRUE]
    /\ mst_calls[2].ret.tag = "Err"
    /\ mst_calls[1].listener # mst_calls[2].listener
    /\ listeners[mst_calls[1].listener]
    /\ ~listeners[mst_calls[2].listener]

=============================================================================
